---- MODULE Spec2Model ----
(***************************************************************************)
(* Model of src/aaas_final.py: the AAAS adapter class (spreadsheet load,   *)
(* sentiment classification, WhatsApp send, Drive backup) and the          *)
(* Streamlit script main(), which Streamlit runs top to bottom once per    *)
(* user interaction.                                                       *)
(*                                                                         *)
(* An exception that leaves main() (or an adapter method) is recorded in   *)
(* exc and ends the run in pc = "crashed".  Every external collaborator    *)
(* (credentials file, gspread, the transformers pipeline, stdout, the      *)
(* Drive client) is an input drawn with \E: it either answers or raises.   *)
(***************************************************************************)
EXTENDS Integers, Sequences, FiniteSets, TLC

VARIABLES
    pc,                 \* position of the running script / adapter call
    exc,                \* the exception that escaped, or NoExc
    credenciais,        \* self.credenciais
    sheet,              \* self.sheet: a worksheet handle or None
    dados,              \* self.dados: the lead table (sequence of rows)
    status_filtro,      \* main: selection of the Status multiselect
    plataforma_filtro,  \* main: selection of the Plataforma multiselect
    data_min,           \* main: date returned by the "Data inicial" widget
    data_max,           \* main: date returned by the "Data final" widget
    dados_filtrados,    \* main: index labels of the rows kept by the filter
    metrics,            \* main: values shown by the st.metric widgets
    button,             \* main: the button whose branch this run executes
    report,             \* main: st.success / st.error lines of the send loop
    wa_calls,           \* calls received by enviar_whatsapp in this run
    log,                \* lines appended to aaas_errors.log (see Rerun)
    call,               \* AdapterSpec: the adapter method being called
    ret                 \* AdapterSpec: <<>> or <<returned value>>

vars == <<pc, exc, credenciais, sheet, dados, status_filtro, plataforma_filtro,
          data_min, data_max, dados_filtrados, metrics, button, report,
          wa_calls, log, call, ret>>

-----------------------------------------------------------------------------
(* Bounds of the model *)

MaxRows == 2
MaxLog == 2

Statuses == {"A", "B"}
Plataformas == {"X", "Y"}
Days == {1, 2}
\* time of day of a timestamp, in ticks; 0 is midnight
Tods == {0, 1}
TicksPerDay == Cardinality(Tods)

-----------------------------------------------------------------------------
(* Values *)

None == "None"
Worksheet == "sheet1"
NoExc == [site |-> "", kind |-> ""]
NoMetrics == [total |-> -1, positivos |-> -1, pct |-> -1]
NoCall == [method |-> "", arg |-> "", outcome |-> "", log0 |-> 0]

\* pd.DataFrame(): no rows and no columns
EmptyFrame == << >>

\* a cell of the sheet's Data column: text that parses as a date-time, or not
DateCells == [kind : {"datetime"}, day : Days, tod : Tods]
BadCell == [kind |-> "text", day |-> 0, tod |-> 0]
RawCells == DateCells \cup {BadCell}

\* a record returned by get_all_records(); Nome, Telefone, Interacao and Valor
\* are carried by the row's position (its pandas index label)
RawRows == [Status : Statuses, Plataforma : Plataformas, Data : RawCells]
Sheets == UNION {[1..n -> RawRows] : n \in 0..MaxRows}

\* what self.sheet.get_all_records() does: raises, or returns the records
Fetch(s) == [raises |-> FALSE, records |-> s]
FetchRaises == [raises |-> TRUE, records |-> << >>]
Fetches == {FetchRaises} \cup {Fetch(s) : s \in Sheets}
\* the re-fetch of "Atualizar Dados" is drawn from a smaller set (it raises, or
\* the sheet is empty, or it holds one row of any Data cell): st.rerun() drops
\* the table it loads before anything reads it
RefreshSheets == {t \in Sheets : \/ t = << >>
                                 \/ /\ Len(t) = 1
                                    /\ t[1].Status = "A"
                                    /\ t[1].Plataforma = "X"}
RefreshFetches == {FetchRaises} \cup {Fetch(s) : s \in RefreshSheets}

-----------------------------------------------------------------------------
(* Dates and timestamps *)

\* pd.to_datetime of a parseable cell: a timestamp, in ticks
Timestamp(cell) == cell.day * TicksPerDay + cell.tod

\* pd.to_datetime(d) of a datetime.date d: midnight of that day
to_datetime(d) == d * TicksPerDay

\* the calendar date of a timestamp (Timestamp.date())
DateOf(ts) == ts \div TicksPerDay

\* st.date_input(label, value): the widget holds dates; a datetime default is
\* cut to its date, and the user may pick another day
date_input(default) == {DateOf(default)} \cup Days

SeqMin(f) == CHOOSE x \in {f[i] : i \in DOMAIN f} : \A j \in DOMAIN f : x <= f[j]
SeqMax(f) == CHOOSE x \in {f[i] : i \in DOMAIN f} : \A j \in DOMAIN f : x >= f[j]

RECURSIVE Concat(_)
Concat(ss) == IF ss = << >> THEN << >> ELSE Head(ss) \o Concat(Tail(ss))

Column(df, c) == [i \in DOMAIN df |-> df[i][c]]
Unique(df, c) == {df[i][c] : i \in DOMAIN df}

-----------------------------------------------------------------------------
(* AAAS: loading the lead table *)

\* _conectar_google_sheets: authorize and open, or log and return None
conectar_google_sheets(connOk) ==
    IF connOk THEN [sheet |-> Worksheet, log |-> << >>]
    ELSE [sheet |-> None, log |-> <<"Erro no Google Sheets">>]

\* pd.to_datetime(df['Data']) with the default errors='raise'
ParseOk(records) == \A i \in DOMAIN records : records[i].Data.kind = "datetime"
ParseDates(records) ==
    [i \in DOMAIN records |->
        [Status |-> records[i].Status,
         Plataforma |-> records[i].Plataforma,
         Data |-> Timestamp(records[i].Data)]]

\* _carregar_dados: the table, or the exception that leaves the method
carregar_dados(sh, fetch) ==
    IF sh = None THEN [exc |-> NoExc, df |-> EmptyFrame]
    ELSE IF fetch.raises
        THEN [exc |-> [site |-> "_carregar_dados", kind |-> "APIError"],
              df |-> EmptyFrame]
    ELSE IF fetch.records = << >> THEN [exc |-> NoExc, df |-> EmptyFrame]
    ELSE IF ~ParseOk(fetch.records)
        THEN [exc |-> [site |-> "_carregar_dados", kind |-> "DateParseError"],
              df |-> EmptyFrame]
    ELSE [exc |-> NoExc, df |-> ParseDates(fetch.records)]

-----------------------------------------------------------------------------
(* AAAS.analisar_sentimento *)

Labels == {"POSITIVE", "NEGATIVE", "NEUTRAL", "LABEL_1"}
\* scores in hundredths
Scores == {50, 99}
\* what self.sentiment_analyzer(texto) does: raises, returns an empty list
\* ([0] raises IndexError), a dict without "label" (KeyError), or a result
AnalyzerResults == [kind : {"result"}, label : Labels, score : Scores]
AnalyzerFailures == {[kind |-> k, label |-> "", score |-> 0] :
                        k \in {"raises", "empty", "nolabel"}}
AllAnalyzerOutcomes == AnalyzerResults \cup AnalyzerFailures
\* the outcomes used per row by the render: the analyzer raises, or answers
\* POSITIVE, or answers something else
AnalyzerOutcomes == {o \in AllAnalyzerOutcomes :
                        \/ o.kind = "raises"
                        \/ o.kind = "result" /\ o.score = 99
                             /\ o.label \in {"POSITIVE", "NEGATIVE"}}

AnalysisFailure ==
    [ret |-> [sentimento |-> "NEUTRO", confianca |-> 0],
     log |-> <<"Erro na analise">>]

\* the label is returned as the pipeline gave it, without the mapping
analisar_sentimento_RawLabel(out) ==
    IF out.kind = "result"
    THEN [ret |-> [sentimento |-> out.label, confianca |-> out.score],
          log |-> << >>]
    ELSE AnalysisFailure

\* the returned dict, and the lines the call appends to the error log
analisar_sentimento(out) ==
    IF out.kind = "result"
    THEN [ret |-> [sentimento |-> IF out.label = "POSITIVE" THEN "POSITIVO"
                                  ELSE IF out.label = "NEGATIVE" THEN "NEGATIVO"
                                  ELSE "NEUTRO",
                   confianca |-> out.score],
          log |-> << >>]
    ELSE AnalysisFailure

-----------------------------------------------------------------------------
(* AAAS.enviar_whatsapp *)

\* the only call that can fail inside the try is print
enviar_whatsapp(printOk) ==
    IF printOk THEN [ret |-> [status |-> "enviado"], log |-> << >>]
    ELSE [ret |-> [status |-> "erro"], log |-> <<"Erro no WhatsApp">>]

-----------------------------------------------------------------------------
(* main: the filter *)

\* rows kept by lines 108-116, as index labels in table order
Filter(df, sf, pf, dmin, dmax) ==
    LET keep(i) == /\ (sf # {} => df[i].Status \in sf)
                   /\ (pf # {} => df[i].Plataforma \in pf)
                   /\ df[i].Data >= to_datetime(dmin)
                   /\ df[i].Data <= to_datetime(dmax)
    IN SelectSeq([i \in DOMAIN df |-> i], keep)

Range(f) == {f[i] : i \in DOMAIN f}

-----------------------------------------------------------------------------
(* One run of the script *)

runVars == <<status_filtro, plataforma_filtro, data_min, data_max,
             dados_filtrados, metrics, button, report, wa_calls>>
adapterVars == <<call, ret>>

Init ==
    /\ pc = "start"
    /\ exc = NoExc
    /\ credenciais = None
    /\ sheet = None
    /\ dados = EmptyFrame
    /\ status_filtro = {}
    /\ plataforma_filtro = {}
    /\ data_min = 0
    /\ data_max = 0
    /\ dados_filtrados = << >>
    /\ metrics = NoMetrics
    /\ button = ""
    /\ report = << >>
    /\ wa_calls = << >>
    /\ log = << >>
    /\ call = NoCall
    /\ ret = << >>

\* aaas = AAAS(): __init__ with its two helpers and the pipeline
Construct ==
    /\ pc = "start"
    /\ \E credOk \in BOOLEAN, connOk \in BOOLEAN, fetch \in Fetches,
          pipeOk \in BOOLEAN :
        IF ~credOk
        THEN /\ pc' = "crashed"
             /\ exc' = [site |-> "__init__", kind |-> "FileNotFoundError"]
             /\ UNCHANGED <<credenciais, sheet, dados, log>>
        ELSE LET conn == conectar_google_sheets(connOk)
                 load == carregar_dados(conn.sheet, fetch)
             IN /\ credenciais' = "loaded"
                /\ sheet' = conn.sheet
                /\ log' = log \o conn.log
                /\ IF load.exc # NoExc
                   THEN /\ pc' = "crashed"
                        /\ exc' = load.exc
                        /\ UNCHANGED dados
                   ELSE IF ~pipeOk
                   THEN /\ pc' = "crashed"
                        /\ exc' = [site |-> "pipeline", kind |-> "OSError"]
                        /\ dados' = load.df
                   ELSE /\ pc' = "filters"
                        /\ exc' = NoExc
                        /\ dados' = load.df
    /\ UNCHANGED <<runVars, adapterVars>>

\* lines 98-106: the filter widgets read three columns of aaas.dados
ReadFilters ==
    /\ pc = "filters"
    /\ IF dados = EmptyFrame
       THEN /\ pc' = "crashed"
            /\ exc' = [site |-> "filtros", kind |-> "KeyError"]
            /\ UNCHANGED <<status_filtro, plataforma_filtro, data_min, data_max>>
       ELSE /\ \E sf \in SUBSET Unique(dados, "Status"),
                  pf \in SUBSET Unique(dados, "Plataforma"),
                  dmin \in date_input(SeqMin(Column(dados, "Data"))),
                  dmax \in date_input(SeqMax(Column(dados, "Data"))) :
                /\ status_filtro' = sf
                /\ plataforma_filtro' = pf
                /\ data_min' = dmin
                /\ data_max' = dmax
            /\ pc' = "render"
            /\ UNCHANGED exc
    /\ UNCHANGED <<credenciais, sheet, dados, dados_filtrados, metrics, button,
                   report, wa_calls, log, adapterVars>>

\* lines 108-139: filter, metrics, charts, table
RenderBody ==
    /\ pc = "render"
    /\ LET kept == Filter(dados, status_filtro, plataforma_filtro,
                          data_min, data_max)
           n == Len(kept)
       IN /\ dados_filtrados' = kept
          /\ \E outs \in [1..n -> AnalyzerOutcomes] :
               LET sentimentos == [k \in 1..n |-> analisar_sentimento(outs[k])]
                   positivos == Cardinality({k \in 1..n :
                                   sentimentos[k].ret.sentimento = "POSITIVO"})
               IN /\ log' = log \o Concat(Column(sentimentos, "log"))
                  /\ IF n = 0
                     THEN /\ pc' = "crashed"
                          /\ exc' = [site |-> "metricas",
                                     kind |-> "ZeroDivisionError"]
                          /\ UNCHANGED metrics
                     ELSE /\ pc' = "buttons"
                          /\ metrics' = [total |-> n, positivos |-> positivos,
                                         pct |-> (positivos * 1000) \div n]
                          /\ UNCHANGED exc
    /\ UNCHANGED <<credenciais, sheet, dados, status_filtro, plataforma_filtro,
                   data_min, data_max, button, report, wa_calls, adapterVars>>

\* lines 142-144: the "Atualizar Dados" button
AtualizarDados ==
    /\ pc = "buttons"
    /\ button' = "atualizar"
    /\ \E fetch \in RefreshFetches :
        LET load == carregar_dados(sheet, fetch)
        IN IF load.exc # NoExc
           THEN /\ pc' = "crashed"
                /\ exc' = load.exc
                /\ UNCHANGED <<dados, status_filtro, plataforma_filtro,
                               data_min, data_max, dados_filtrados, metrics>>
           ELSE \* aaas.dados is replaced, then st.rerun() abandons the run
                \* and the values its widgets returned
                /\ dados' = load.df
                /\ pc' = "rerun"
                /\ status_filtro' = {}
                /\ plataforma_filtro' = {}
                /\ data_min' = 0
                /\ data_max' = 0
                /\ dados_filtrados' = << >>
                /\ metrics' = NoMetrics
                /\ UNCHANGED exc
    /\ UNCHANGED <<credenciais, sheet, report, wa_calls, log, adapterVars>>

\* the loop of lines 147-153 over dados_filtrados.iterrows(): rows are the index
\* labels still to visit, outs what print does in each send, acc what the
\* iterations before have done (the calls the adapter received, the
\* st.success / st.error lines, the lines logged)
RECURSIVE EnviarLoop_Break(_, _, _)
EnviarLoop_Break(rows, outs, acc) ==
    IF rows = << >> THEN acc
    ELSE LET resultado == enviar_whatsapp(Head(outs))
             sent == [calls |-> Append(acc.calls, [row |-> Head(rows),
                                                   delivered |-> Head(outs)]),
                      report |-> Append(acc.report,
                          [row |-> Head(rows),
                           kind |-> IF resultado.ret.status = "enviado"
                                    THEN "success" ELSE "error"]),
                      log |-> acc.log \o resultado.log]
         IN IF resultado.ret.status = "enviado"
            THEN EnviarLoop_Break(Tail(rows), Tail(outs), sent)
            ELSE sent

RECURSIVE EnviarLoop(_, _, _)
EnviarLoop(rows, outs, acc) ==
    IF rows = << >> THEN acc
    ELSE LET resultado == enviar_whatsapp(Head(outs))
         IN EnviarLoop(Tail(rows), Tail(outs),
               [calls |-> Append(acc.calls, [row |-> Head(rows),
                                             delivered |-> Head(outs)]),
                report |-> Append(acc.report,
                    [row |-> Head(rows),
                     kind |-> IF resultado.ret.status = "enviado"
                              THEN "success" ELSE "error"]),
                log |-> acc.log \o resultado.log])

\* lines 146-153: the "Enviar WhatsApp" button
EnviarWhatsApp ==
    /\ pc = "buttons"
    /\ button' = "whatsapp"
    /\ \E outs \in [1..Len(dados_filtrados) -> BOOLEAN] :
        LET done == EnviarLoop(dados_filtrados, outs,
                               [calls |-> << >>, report |-> << >>, log |-> << >>])
        IN /\ wa_calls' = done.calls
           /\ report' = done.report
           /\ log' = log \o done.log
    /\ pc' = "idle"
    /\ UNCHANGED <<exc, credenciais, sheet, dados, status_filtro,
                   plataforma_filtro, data_min, data_max, dados_filtrados,
                   metrics, adapterVars>>

\* lines 155-165: the "Gerar Relatorio PDF" button (the document is not modelled)
GerarRelatorioPDF ==
    /\ pc = "buttons"
    /\ button' = "pdf"
    /\ pc' = "idle"
    /\ UNCHANGED <<exc, credenciais, sheet, dados, status_filtro,
                   plataforma_filtro, data_min, data_max, dados_filtrados,
                   metrics, report, wa_calls, log, adapterVars>>

\* no button was pressed: the script runs to its end
NoButton ==
    /\ pc = "buttons"
    /\ button' = "none"
    /\ pc' = "idle"
    /\ UNCHANGED <<exc, credenciais, sheet, dados, status_filtro,
                   plataforma_filtro, data_min, data_max, dados_filtrados,
                   metrics, report, wa_calls, log, adapterVars>>

\* Streamlit runs main() again: after st.rerun(), after the next interaction,
\* or after it has shown an uncaught exception.  aaas is local to main, so the
\* object of the previous run is gone; log restarts because it stands for the
\* lines appended by the current run (the program never reads the file).
Rerun ==
    /\ pc \in {"rerun", "idle", "crashed"}
    /\ pc' = "start"
    /\ exc' = NoExc
    /\ credenciais' = None
    /\ sheet' = None
    /\ dados' = EmptyFrame
    /\ status_filtro' = {}
    /\ plataforma_filtro' = {}
    /\ data_min' = 0
    /\ data_max' = 0
    /\ dados_filtrados' = << >>
    /\ metrics' = NoMetrics
    /\ button' = ""
    /\ report' = << >>
    /\ wa_calls' = << >>
    /\ log' = << >>
    /\ UNCHANGED adapterVars

Next ==
    \/ Construct
    \/ ReadFilters
    \/ RenderBody
    \/ AtualizarDados
    \/ EnviarWhatsApp
    \/ GerarRelatorioPDF
    \/ NoButton
    \/ Rerun

Spec == Init /\ [][Next]_vars

-----------------------------------------------------------------------------
(* The adapter methods called directly on a constructed AAAS object *)

Textos == {"", "otimo atendimento", "pessimo"}

\* the argument of backup_gdrive: a pathlib.Path (it has .name) of a file that
\* exists or not, a plain str path (no .name), or None
Arquivos == {"Path:leads.csv", "Path:missing.csv", "str:leads.csv", "None"}
HasName(arquivo) == arquivo \in {"Path:leads.csv", "Path:missing.csv"}
Exists(arquivo) == arquivo \in {"Path:leads.csv", "str:leads.csv"}

AdapterInit ==
    /\ pc = "adapter"
    /\ exc = NoExc
    /\ credenciais = "loaded"
    /\ sheet = Worksheet
    /\ dados = EmptyFrame
    /\ status_filtro = {}
    /\ plataforma_filtro = {}
    /\ data_min = 0
    /\ data_max = 0
    /\ dados_filtrados = << >>
    /\ metrics = NoMetrics
    /\ button = ""
    /\ report = << >>
    /\ wa_calls = << >>
    /\ log = << >>
    /\ call = NoCall
    /\ ret = << >>

appVars == <<credenciais, sheet, dados, runVars>>

\* aaas.analisar_sentimento(texto)
CallAnalisarSentimento ==
    /\ pc = "adapter"
    /\ Len(log) < MaxLog
    /\ \E texto \in Textos, out \in AllAnalyzerOutcomes :
        LET r == analisar_sentimento(out)
        IN /\ call' = [method |-> "analisar_sentimento", arg |-> texto,
                       outcome |-> out.kind, log0 |-> Len(log)]
           /\ ret' = <<r.ret>>
           /\ log' = log \o r.log
    /\ pc' = "returned"
    /\ UNCHANGED <<exc, appVars>>

\* aaas.backup_gdrive(arquivo_local) is entered
CallBackup ==
    /\ pc = "adapter"
    /\ Len(log) < MaxLog
    /\ \E arquivo \in Arquivos :
        call' = [method |-> "backup_gdrive", arg |-> arquivo,
                 outcome |-> "", log0 |-> Len(log)]
    /\ pc' = "backup_build"
    /\ UNCHANGED <<exc, ret, log, appVars>>

\* lines 78-80: the except clause of backup_gdrive, entered with exception e
BackupExcept(e) ==
    /\ log' = Append(log, "Erro no backup")
    /\ ret' = <<FALSE>>
    /\ call' = [call EXCEPT !.outcome = e]
    /\ pc' = "returned"
    /\ UNCHANGED exc

\* lines 64-65: import build; build('drive', 'v3', credentials=...)
BackupBuild ==
    /\ pc = "backup_build"
    /\ \E res \in {"ok", "ImportError", "DefaultCredentialsError"} :
        IF res = "ok"
        THEN /\ pc' = "backup_metadata"
             /\ UNCHANGED <<exc, call, ret, log>>
        ELSE BackupExcept(res)
    /\ UNCHANGED appVars

\* the file's name is read before the try block is entered
BackupMetadata_OutsideTry ==
    /\ pc = "backup_metadata"
    /\ IF HasName(call.arg)
       THEN /\ pc' = "backup_media"
            /\ UNCHANGED <<exc, call, ret, log>>
       ELSE /\ pc' = "crashed"
            /\ exc' = [site |-> "backup_gdrive", kind |-> "AttributeError"]
            /\ UNCHANGED <<call, ret, log>>
    /\ UNCHANGED appVars

\* lines 66-69: file_metadata reads arquivo_local.name
BackupMetadata ==
    /\ pc = "backup_metadata"
    /\ IF HasName(call.arg)
       THEN /\ pc' = "backup_media"
            /\ UNCHANGED <<exc, call, ret, log>>
       ELSE BackupExcept("AttributeError")
    /\ UNCHANGED appVars

\* lines 70-71: import MediaFileUpload; MediaFileUpload(arquivo_local, ...)
BackupMedia ==
    /\ pc = "backup_media"
    /\ IF Exists(call.arg)
       THEN /\ pc' = "backup_execute"
            /\ UNCHANGED <<exc, call, ret, log>>
       ELSE BackupExcept("FileNotFoundError")
    /\ UNCHANGED appVars

\* lines 72-77: files().create(...).execute(); return True
BackupExecute ==
    /\ pc = "backup_execute"
    /\ \E ok \in BOOLEAN :
        IF ok
        THEN /\ ret' = <<TRUE>>
             /\ call' = [call EXCEPT !.outcome = "executed"]
             /\ pc' = "returned"
             /\ UNCHANGED <<exc, log>>
        ELSE BackupExcept("HttpError")
    /\ UNCHANGED appVars

\* the caller has the returned value and goes on to its next call
NextCall ==
    /\ pc = "returned"
    /\ pc' = "adapter"
    /\ call' = NoCall
    /\ ret' = << >>
    /\ UNCHANGED <<exc, log, appVars>>

AdapterNext ==
    \/ CallAnalisarSentimento
    \/ CallBackup
    \/ BackupBuild
    \/ BackupMetadata
    \/ BackupMedia
    \/ BackupExecute
    \/ NextCall

AdapterSpec == AdapterInit /\ [][AdapterNext]_vars

-----------------------------------------------------------------------------
(* Properties *)

SentimentLabels == {"POSITIVO", "NEGATIVO", "NEUTRO"}

\* the run has computed dados_filtrados from the dados and criteria in the state
FilterDone ==
    \/ pc \in {"buttons", "idle"}
    \/ pc = "crashed" /\ exc.site = "metricas"
    \/ pc = "crashed" /\ button = "atualizar"

PassesStatus(row) == status_filtro # {} => row.Status \in status_filtro
PassesPlataforma(row) == plataforma_filtro # {} => row.Plataforma \in plataforma_filtro
\* the row's date is one of the days data_min .. data_max
InDateRange(row) == data_min <= DateOf(row.Data) /\ DateOf(row.Data) <= data_max

\* The filter as the code computes it, on timestamps: a row is kept iff it
\* passes the two set criteria and lies between midnight of data_min and
\* midnight of data_max.  (Holds; shows what is left of C2 once the day of
\* data_max is cut at midnight.)
FilterIffTimestampCriteria ==
    FilterDone =>
        \A i \in DOMAIN dados :
            i \in Range(dados_filtrados) <=>
                /\ PassesStatus(dados[i])
                /\ PassesPlataforma(dados[i])
                /\ to_datetime(data_min) <= dados[i].Data
                /\ dados[i].Data <= to_datetime(data_max)

\* C1: constructing AAAS (credentials, _conectar_google_sheets, _carregar_dados)
\* never lets an exception escape on an authentication or connectivity failure,
\* and a failed connection leaves the empty table with the error logged.
C1_LoadNeverFails ==
    /\ ~(/\ pc = "crashed"
         /\ button = ""
         /\ exc.site \in {"__init__", "_carregar_dados"}
         /\ exc.kind \in {"FileNotFoundError", "APIError"})
    /\ (credenciais = "loaded" /\ sheet = None) =>
            /\ dados = EmptyFrame
            /\ Len(log) >= 1
            /\ log[1] = "Erro no Google Sheets"

\* C2: the filtered subset is a subset of the table's rows, and a row is in it
\* iff its Status is in the status set (when non-empty), its Plataforma is in
\* the platform set (when non-empty) and its Data lies in the date range.
C2_FilterIffCriteria ==
    FilterDone =>
        /\ Range(dados_filtrados) \subseteq DOMAIN dados
        /\ \A i \in DOMAIN dados :
              i \in Range(dados_filtrados) <=>
                  /\ PassesStatus(dados[i])
                  /\ PassesPlataforma(dados[i])
                  /\ InDateRange(dados[i])

\* C3: with an empty filtered subset the metrics do not divide by zero: the
\* render goes on and the percentage of positives is 0.
C3_EmptySubsetNoDivision ==
    /\ ~(pc = "crashed" /\ exc.kind = "ZeroDivisionError")
    /\ (pc \in {"buttons", "idle"} /\ dados_filtrados = << >>) => metrics.pct = 0

\* C4: when the loaded table is empty, a render cycle completes and raises
\* nothing, in particular not when it reads the Status, Plataforma and Data
\* columns.
C4_EmptyTableRenderCompletes ==
    (credenciais = "loaded" /\ dados = EmptyFrame /\ button = "") =>
        ~(pc = "crashed" /\ exc.site \in {"filtros", "metricas"})

\* C5: analisar_sentimento never raises; the label it returns is POSITIVO,
\* NEGATIVO or NEUTRO, and when the analyzer fails it returns NEUTRO with
\* confidence 0 and logs the error.
C5_AnalisarSentimentoTotal ==
    call.method = "analisar_sentimento" =>
        /\ pc = "returned"
        /\ exc = NoExc
        /\ Len(ret) = 1
        /\ ret[1].sentimento \in SentimentLabels
        /\ call.outcome # "result" =>
              /\ ret[1] = [sentimento |-> "NEUTRO", confianca |-> 0]
              /\ log = Append(SubSeq(log, 1, call.log0), "Erro na analise")

\* a call in which the analyzer returned an empty list
C5_Witness ==
    /\ call.method = "analisar_sentimento"
    /\ call.outcome = "empty"
    /\ pc = "returned"
    /\ ret[1].confianca = 0

\* C6: the Notify action calls the send adapter exactly once per row of the
\* filtered subset, in subset order, and reports one success or failure per
\* row, the failure of one send not ending the batch.
C6_NotifyEveryRowInOrder ==
    button = "whatsapp" =>
        /\ pc = "idle"
        /\ Len(wa_calls) = Len(dados_filtrados)
        /\ Len(report) = Len(dados_filtrados)
        /\ \A k \in DOMAIN dados_filtrados :
              /\ wa_calls[k].row = dados_filtrados[k]
              /\ report[k].row = dados_filtrados[k]
              /\ report[k].kind = IF wa_calls[k].delivered THEN "success"
                                  ELSE "error"

\* a batch of at least two rows whose first send failed and whose others
\* succeeded: 1 failure and N-1 successes
C6_Witness ==
    /\ button = "whatsapp"
    /\ pc = "idle"
    /\ Len(dados_filtrados) >= 2
    /\ Len(report) = Len(dados_filtrados)
    /\ report[1].kind = "error"
    /\ \A k \in 2..Len(report) : report[k].kind = "success"

\* C7: the Refresh action replaces the table and, when the sheet fetch of the
\* reload raises, does not raise itself.
C7_RefreshNeverRaises ==
    button = "atualizar" =>
        /\ ~(pc = "crashed" /\ exc.kind = "APIError")
        /\ pc = "rerun" => dados \in {EmptyFrame} \cup {ParseDates(t) :
                                t \in {u \in RefreshSheets : ParseOk(u)}}

\* C8: the date range is inclusive on both ends: a row that passes the status
\* and platform criteria and whose Data is on the day data_min or on the day
\* data_max is in the filtered subset.
C8_DateRangeInclusive ==
    (FilterDone /\ data_min <= data_max) =>
        \A i \in DOMAIN dados :
            (/\ PassesStatus(dados[i])
             /\ PassesPlataforma(dados[i])
             /\ DateOf(dados[i].Data) \in {data_min, data_max})
                => i \in Range(dados_filtrados)

\* C9: a Data value that fails to parse does not abort the load.
C9_BadDateDoesNotAbortLoad ==
    exc.kind # "DateParseError"

\* C10: backup_gdrive never raises; it returns True only when the upload call
\* completed, and when any step fails it logs the error and returns False.
C10_BackupNeverRaises ==
    call.method = "backup_gdrive" =>
        /\ pc # "crashed"
        /\ exc = NoExc
        /\ pc = "returned" =>
              /\ ret \in {<<TRUE>>, <<FALSE>>}
              /\ ret = <<TRUE>> <=> call.outcome = "executed"
              /\ ret = <<TRUE>> => log = SubSeq(log, 1, call.log0)
              /\ ret = <<FALSE>> =>
                    log = Append(SubSeq(log, 1, call.log0), "Erro no backup")

\* a backup of an argument without .name has returned False
C10_Witness ==
    /\ call.method = "backup_gdrive"
    /\ call.outcome = "AttributeError"
    /\ pc = "returned"
    /\ ret = <<FALSE>>

====
